---- MODULE Spec2Model ----
(***************************************************************************)
(* Model of the ERC-7562 validation tracer                                 *)
(* (src/src/tracing/erc_7562_validation.rs): the inspector's state, its    *)
(* four event handlers (call, step, call_end, log), and the pure helpers   *)
(* they use.  Variables other than the struct's fields are history         *)
(* variables recording what the handlers did (provider queries, event      *)
(* counts) or the value of a handler's local at its return.                *)
(***************************************************************************)
EXTENDS Integers, Sequences, FiniteSets, TLC

(***************************************************************************)
(* Bounds of the model.                                                    *)
(***************************************************************************)
MaxCalls == 2
MaxSteps == 1
MaxLogs == 1
MaxFrames == 2
MaxFrameSteps == 3
MaxTreeCalls == 3
MaxEnds == 2
MaxDepthArg == 1
MaxDraftFrames == 2
MaxLogEvents == 2

(***************************************************************************)
(* Opcodes, by their byte value (OpCode::get()).                           *)
(***************************************************************************)
ADD == 1
ISZERO == 21
KECCAK256 == 32
EXTCODESIZE == 59
EXTCODECOPY == 60
EXTCODEHASH == 63
POP == 80
SLOAD == 84
SSTORE == 85
GAS == 90
TLOAD == 92
TSTORE == 93
PUSH0 == 95
SWAP16 == 159
CALL == 241
CALLCODE == 242
RETURN == 243
DELEGATECALL == 244
EXTCALL == 248
EXTDELEGATECALL == 249
STATICCALL == 250
EXTSTATICCALL == 251
REVERT == 253
\* revm::bytecode::opcode::{CREATE, CREATE2}, as the draft inspector uses them.
CREATE == 240
CREATE2 == 245

\* Option<T>: None is the empty sequence, Some(x) the one-element sequence.
None == << >>
Some(x) == << x >>
IsSome(o) == Len(o) = 1
IsNone(o) == Len(o) = 0
Unwrap(o) == o[1]

\* HashMap<K, V> as a function on the set of present keys.
EmptyMap == [k \in {} |-> 0]
ContainsKey(map, k) == k \in DOMAIN map
Insert(map, k, v) == [x \in (DOMAIN map) \cup {k} |-> IF x = k THEN v ELSE map[x]]

\* increment_count!: entry(k).and_modify(+1).or_insert(1)
increment_count(map, k) ==
    IF k \in DOMAIN map THEN Insert(map, k, map[k] + 1) ELSE Insert(map, k, 1)

Last(s) == s[Len(s)]
Front(s) == SubSeq(s, 1, Len(s) - 1)

(***************************************************************************)
(* Words and addresses.  A U256 is its 32 big-endian bytes, an Address 20  *)
(* bytes.                                                                  *)
(***************************************************************************)
WordLen == 32
AddrLen == 20

\* The word whose numeric value is n (n < 256).
WordOf(n) == [i \in 1..WordLen |-> IF i = WordLen THEN n ELSE 0]
\* The address whose numeric (big-endian) value is n (n < 256).
AddrOf(n) == [i \in 1..AddrLen |-> IF i = AddrLen THEN n ELSE 0]
\* The word whose low 20 bytes are b, 0, ..., 0: as an address, first byte b.
WordHighAddrByte(b) ==
    [i \in 1..WordLen |-> IF i = WordLen - AddrLen + 1 THEN b ELSE 0]

\* Address::from_word: the last 20 bytes of the 32-byte word.
from_word(w) == SubSeq(w, WordLen - AddrLen + 1, WordLen)

\* Numeric values of byte strings saturate at Sat: every comparison the
\* code makes is against a number far below it.
Sat == 256 * 256

\* U256::from_le_slice: bytes[0] is the least significant byte.
from_le_slice(bytes) ==
    IF \E i \in 3..Len(bytes) : bytes[i] # 0 THEN Sat
    ELSE (IF Len(bytes) >= 1 THEN bytes[1] ELSE 0)
         + (IF Len(bytes) >= 2 THEN 256 * bytes[2] ELSE 0)

\* Big-endian numeric value of a byte string.
BeValue(bytes) ==
    LET n == Len(bytes)
    IN  IF \E i \in 1..(n - 2) : bytes[i] # 0 THEN Sat
        ELSE (IF n >= 1 THEN bytes[n] ELSE 0)
             + (IF n >= 2 THEN 256 * bytes[n - 1] ELSE 0)

\* format!("{:#x}", word): the hexadecimal digits without leading zeros
\* ("0x" prefix left implicit), "0" for zero.
Nibbles(w) == [i \in 1..(2 * Len(w)) |->
                 IF i % 2 = 1 THEN w[(i + 1) \div 2] \div 16 ELSE w[i \div 2] % 16]
StripZeros(ds) ==
    LET nz == {i \in 1..Len(ds) : ds[i] # 0}
    IN  IF nz = {} THEN <<0>>
        ELSE SubSeq(ds, CHOOSE i \in nz : \A j \in nz : i <= j, Len(ds))
format_hex(w) == StripZeros(Nibbles(w))

(***************************************************************************)
(* Opcode classification.                                                  *)
(***************************************************************************)
is_ext(opcode) == opcode \in {EXTCODEHASH, EXTCODESIZE, EXTCODECOPY}

is_call(opcode) == opcode \in {CALL, CALLCODE, DELEGATECALL, STATICCALL}

is_ext_or_call(opcode) == is_ext(opcode) \/ is_call(opcode)

is_allowed_precompile(address) ==
    LET address_int == from_le_slice(address)
    IN  address_int > 0 /\ address_int < 10

\* Values of the additional_ops array: POP, ADD, SUB, MUL, DIV, EQ, LT, GT,
\* SLT, SGT, SHL, SHR, AND, OR, NOT, ISZERO.
default_ignored_opcodes ==
    (PUSH0..SWAP16) \cup {POP, ADD, 3, 2, 4, 20, 16, 17, 18, 19, 27, 28, 22, 23, 25, ISZERO}

(***************************************************************************)
(* Inputs the executor and the state provider hand to the handlers.        *)
(***************************************************************************)
\* CallInputs: scheme, caller, target_address, input, value, gas_limit.
CallInputsSet ==
    { [scheme |-> "Call", caller |-> AddrOf(170), target_address |-> AddrOf(187),
       input |-> << >>, value |-> 0, gas_limit |-> 1000],
      [scheme |-> "StaticCall", caller |-> AddrOf(187), target_address |-> AddrOf(204),
       input |-> <<1, 2>>, value |-> 1, gas_limit |-> 500] }

\* Bytes of abi.encodeWithSignature("Error(string)", "no"):
\* selector 08c379a0, offset 0x20, length 2, "no" padded to 32 bytes.
ErrorSelector == <<8, 195, 121, 160>>
RevertNoBytes ==
    ErrorSelector \o WordOf(32) \o WordOf(2)
        \o [i \in 1..WordLen |-> IF i = 1 THEN 110 ELSE IF i = 2 THEN 111 ELSE 0]

\* CallOutcome: result.result (InstructionResult), result.output, gas spent.
CallOutcomes ==
    { [result |-> "Return", output |-> << >>, spent |-> 21],
      [result |-> "Revert", output |-> RevertNoBytes, spent |-> 34],
      [result |-> "OutOfGas", output |-> << >>, spent |-> 55] }

\* InstructionResult::is_ok / is_revert / is_error.
is_ok(result) == result \in {"Continue", "Stop", "Return", "SelfDestruct"}
is_revert(result) == result \in {"Revert", "CallTooDeep", "OutOfFunds"}
is_error(result) == ~is_ok(result) /\ ~is_revert(result)

(***************************************************************************)
(* RevertReason::decode followed by to_string.  None when the bytes are    *)
(* neither a contract error nor valid UTF-8.                               *)
(***************************************************************************)
RevertPrefix == <<114, 101, 118, 101, 114, 116, 58, 32>>  \* "revert: "

IsErrorString(out) ==
    /\ Len(out) >= 4 + 2 * WordLen
    /\ SubSeq(out, 1, 4) = ErrorSelector
    /\ BeValue(SubSeq(out, 5, 4 + WordLen)) = WordLen
    /\ LET n == BeValue(SubSeq(out, 5 + WordLen, 4 + 2 * WordLen))
       IN  Len(out) >= 4 + 2 * WordLen + n

ErrorString(out) ==
    LET n == BeValue(SubSeq(out, 5 + WordLen, 4 + 2 * WordLen))
    IN  SubSeq(out, 5 + 2 * WordLen, 4 + 2 * WordLen + n)

IsAscii(out) == \A i \in 1..Len(out) : out[i] < 128

RevertReason_decode(out) ==
    IF IsErrorString(out) THEN Some(RevertPrefix \o ErrorString(out))
    ELSE IF IsAscii(out) THEN Some(out)
    ELSE None

(***************************************************************************)
(* CallFrameWithOpCodes.  id is a history field: the ordinal of the call   *)
(* event that created the frame.                                           *)
(***************************************************************************)
get_opcode_from_call_scheme(call_scheme) ==
    CASE call_scheme = "Call" -> "CALL"
      [] call_scheme = "CallCode" -> "CALLCODE"
      [] call_scheme = "DelegateCall" -> "DELEGATECALL"
      [] call_scheme = "StaticCall" -> "STATICCALL"
      [] call_scheme = "ExtDelegateCall" -> "EXTDELEGATECALL"
      [] call_scheme = "ExtStaticCall" -> "EXTSTATICCALL"
      [] call_scheme = "ExtCall" -> "EXTCALL"

DefaultAccessedSlots ==
    [reads |-> EmptyMap, writes |-> EmptyMap,
     transient_reads |-> EmptyMap, transient_writes |-> EmptyMap]

NewCallFrame(id, inputs, depth_arg) ==
    [id |-> id,
     typ |-> get_opcode_from_call_scheme(inputs.scheme),
     from |-> inputs.caller,
     to |-> Some(inputs.target_address),
     input |-> inputs.input,
     value |-> Some(inputs.value),
     gas |-> IF depth_arg = 0 THEN inputs.gas_limit ELSE 0,
     gas_used |-> 0,
     output |-> None,
     error |-> None,
     revert_reason |-> None,
     logs |-> << >>,
     reverted_snapshot |-> FALSE,
     accessed_slots |-> DefaultAccessedSlots,
     ext_code_access_info |-> << >>,
     used_opcodes |-> EmptyMap,
     contract_size |-> EmptyMap,
     out_of_gas |-> FALSE,
     calls |-> << >>]

process_output(frame, output) ==
    IF is_ok(output.result)
    THEN [frame EXCEPT !.output = Some(output.output)]
    ELSE LET f1 == IF is_error(output.result)
                   THEN [frame EXCEPT !.error = Some(output.result)]
                   ELSE frame
         IN  IF is_error(output.result) /\ Len(output.output) = 0
             THEN f1
             ELSE LET reason == IF is_revert(output.result) /\ Len(output.output) >= 4
                                THEN RevertReason_decode(output.output)
                                ELSE None
                      f2 == IF IsSome(reason)
                            THEN [f1 EXCEPT !.revert_reason = reason]
                            ELSE f1
                  IN  [f2 EXCEPT !.output = Some(output.output)]

(***************************************************************************)
(* State.                                                                  *)
(*   config .. keccak      the fields of Erc7562ValidationTracer           *)
(*   current_call_frame    step's local of that name at its return         *)
(*   panicked              a handler panicked; the tracer is gone          *)
(* History of the events delivered and of what the handlers did:           *)
(*   n_call, n_call_end,   events handled so far                           *)
(*   n_step, n_log                                                         *)
(*   open_calls            ordinals of the calls the executor has open,    *)
(*                         innermost last                                  *)
(*   parent_of             call ordinal -> ordinal of the frame on top of  *)
(*                         callstack_with_opcodes when the call fired (0:  *)
(*                         none)                                           *)
(*   ended                 the calls ended, in call_end order, each with   *)
(*                         the outcome reported                            *)
(*   called                call ordinal -> the inputs and the depth the    *)
(*                         call event carried                              *)
(*   provider_queries      how often each State Provider query was issued, *)
(*                         per (kind, top frame, address, slot)            *)
(*   first_read            (top frame, slot) -> the value the provider     *)
(*                         gave at the first SLOAD step it answered        *)
(*   sstored               (top frame, slot) of the SSTORE steps           *)
(*   ext_recorded          (top frame, address) -> how often step recorded *)
(*                         an external-code access                         *)
(*   well_formed           the events so far form a well-formed prefix     *)
(* The draft inspector of erc_7562.rs, Ecr7562Inspector:                   *)
(*   call_stack_with_opcodes   its field of that name                      *)
(*   unsealed              history: the bottom frame as it was before      *)
(*                         capture_end processed it, None before that      *)
(***************************************************************************)
VARIABLES config, gas_limit, depth, interrupt, callstack_with_opcodes,
          last_opcode_with_stack, keccak,
          current_call_frame, panicked,
          n_call, n_call_end, n_step, n_log, open_calls, parent_of, ended, called,
          provider_queries, first_read, sstored, ext_recorded, well_formed,
          call_stack_with_opcodes, unsealed

tracer == <<config, gas_limit, depth, interrupt, callstack_with_opcodes,
            last_opcode_with_stack, keccak>>
step_history == <<provider_queries, first_read, sstored, ext_recorded>>
call_history == <<open_calls, parent_of, ended, called>>
draft == <<call_stack_with_opcodes, unsealed>>
vars == <<tracer, current_call_frame, panicked, n_call, n_call_end, n_step, n_log,
          call_history, step_history, well_formed, draft>>

\* Erc7562ValidationTracerConfig values handed to the constructor.
ConfigInputs ==
    { [ignored_opcodes |-> {}, stack_top_items_size |-> 0, with_log |-> TRUE] }

load_full_config(cfg) ==
    [ignored_opcodes |-> IF cfg.ignored_opcodes = {} THEN default_ignored_opcodes
                         ELSE cfg.ignored_opcodes,
     stack_top_items_size |-> IF cfg.stack_top_items_size = 0 THEN 3
                              ELSE cfg.stack_top_items_size,
     with_log |-> cfg.with_log]

\* From<Erc7562ValidationTracerConfig>: the loaded config, every other field
\* at its Default.
InitWith(configs) ==
    /\ config \in {load_full_config(c) : c \in configs}
    /\ gas_limit = 0
    /\ depth = 0
    /\ interrupt = FALSE
    /\ callstack_with_opcodes = << >>
    /\ last_opcode_with_stack = None
    /\ keccak = {}
    /\ current_call_frame = None
    /\ panicked = FALSE
    /\ n_call = 0
    /\ n_call_end = 0
    /\ n_step = 0
    /\ n_log = 0
    /\ open_calls = << >>
    /\ parent_of = EmptyMap
    /\ ended = << >>
    /\ called = EmptyMap
    /\ provider_queries = EmptyMap
    /\ first_read = EmptyMap
    /\ sstored = {}
    /\ ext_recorded = EmptyMap
    /\ well_formed = TRUE
    /\ call_stack_with_opcodes = << >>
    /\ unsealed = None

Init == InitWith(ConfigInputs)

\* Frames the executor has open: calls not yet matched by a call_end.
OpenFrames == Len(open_calls)
\* The root's call_end has been handled.
RootEnded == n_call > 0 /\ OpenFrames = 0

\* Ordinal of the frame on top of the stack, 0 when there is none.
TopId == IF Len(callstack_with_opcodes) = 0 THEN 0
         ELSE Last(callstack_with_opcodes).id

(***************************************************************************)
(* Inspector::call                                                         *)
(***************************************************************************)
\* A faulty variant of call below: the depth counter is not taken over.
call_KeepDepth(inputs, depth_arg) ==
    /\ ~panicked
    /\ gas_limit' = inputs.gas_limit
    /\ depth' = depth
    /\ callstack_with_opcodes' =
           Append(callstack_with_opcodes, NewCallFrame(n_call + 1, inputs, depth_arg))
    /\ n_call' = n_call + 1
    /\ open_calls' = Append(open_calls, n_call + 1)
    /\ parent_of' = Insert(parent_of, n_call + 1, TopId)
    /\ called' = Insert(called, n_call + 1, [inputs |-> inputs, depth |-> depth_arg])
    /\ well_formed' = (well_formed /\ ~RootEnded /\ depth_arg = OpenFrames)
    /\ UNCHANGED <<draft, config, interrupt, last_opcode_with_stack, keccak,
                   current_call_frame, panicked, n_call_end, n_step, n_log,
                   ended, step_history>>

call(inputs, depth_arg) ==
    /\ ~panicked
    /\ gas_limit' = inputs.gas_limit
    /\ depth' = depth_arg
    /\ callstack_with_opcodes' =
           Append(callstack_with_opcodes, NewCallFrame(n_call + 1, inputs, depth_arg))
    /\ n_call' = n_call + 1
    /\ open_calls' = Append(open_calls, n_call + 1)
    /\ parent_of' = Insert(parent_of, n_call + 1, TopId)
    /\ called' = Insert(called, n_call + 1, [inputs |-> inputs, depth |-> depth_arg])
    /\ well_formed' = (well_formed /\ ~RootEnded /\ depth_arg = OpenFrames)
    /\ UNCHANGED <<draft, config, interrupt, last_opcode_with_stack, keccak,
                   current_call_frame, panicked, n_call_end, n_step, n_log,
                   ended, step_history>>

(***************************************************************************)
(* Inspector::call_end                                                     *)
(***************************************************************************)
\* A faulty variant of capture_end below: the root's children are processed
\* with the root.
capture_end_Deep(stack, outcome) ==
    IF Len(stack) # 1 THEN stack
    ELSE LET root == process_output(stack[1], outcome)
         IN  [stack EXCEPT ![1] =
                  [root EXCEPT !.calls =
                       [i \in 1..Len(root.calls) |->
                            process_output(root.calls[i], outcome)]]]

capture_end(stack, outcome) ==
    IF Len(stack) # 1 THEN stack
    ELSE [stack EXCEPT ![1] = process_output(stack[1], outcome)]

\* The frame popped at a non-root call_end, sealed.
SealedFrame(frame, outcome) ==
    LET c1 == IF outcome.result \in {"OutOfGas", "OutOfFunds"}
              THEN [frame EXCEPT !.out_of_gas = TRUE]
              ELSE frame
        c2 == [c1 EXCEPT !.gas_used = outcome.spent]
    IN  process_output(c2, outcome)

\* A faulty variant of PushLog below: the position is the number of logs.
PushLog_LogCount(stack, data) ==
    IF Len(stack) = 0 THEN stack
    ELSE [stack EXCEPT ![Len(stack)].logs =
              Append(@, [data |-> Some(data),
                         position |-> Some(Len(stack[Len(stack)].logs))])]

\* A faulty variant: the sealed frame is attached but the pop is lost.
AttachToParent_NoPop(stack, new_call) ==
    [stack EXCEPT ![Len(stack) - 1].calls = Append(@, new_call)]

\* A faulty variant: the sealed frame is put at the front of the child list.
AttachToParent_Prepend(stack, new_call) ==
    LET rest == Front(stack)
    IN  [rest EXCEPT ![Len(rest)].calls = <<new_call>> \o @]

\* calls.push(new_call) on the frame that is last after the pop.
AttachToParent(stack, new_call) ==
    LET rest == Front(stack)
    IN  [rest EXCEPT ![Len(rest)].calls = Append(@, new_call)]

call_end(outcome) ==
    /\ ~panicked
    /\ IF depth = 0
       THEN /\ callstack_with_opcodes' = capture_end(callstack_with_opcodes, outcome)
            /\ depth' = depth
       ELSE /\ depth' = depth - 1
            /\ callstack_with_opcodes' =
                   IF Len(callstack_with_opcodes) <= 1
                   THEN callstack_with_opcodes
                   ELSE AttachToParent(callstack_with_opcodes,
                                       SealedFrame(Last(callstack_with_opcodes), outcome))
    /\ n_call_end' = n_call_end + 1
    /\ IF OpenFrames > 0
       THEN /\ open_calls' = Front(open_calls)
            /\ ended' = Append(ended, [id |-> Last(open_calls), outcome |-> outcome])
       ELSE UNCHANGED <<open_calls, ended>>
    /\ well_formed' = (well_formed /\ OpenFrames > 0)
    /\ UNCHANGED <<draft, config, gas_limit, interrupt, last_opcode_with_stack, keccak,
                   current_call_frame, panicked, n_call, n_step, n_log,
                   parent_of, called, step_history>>

(***************************************************************************)
(* Inspector::log                                                          *)
(***************************************************************************)
PushLog(stack, data) ==
    IF Len(stack) = 0 THEN stack
    ELSE [stack EXCEPT ![Len(stack)].logs =
              Append(@, [data |-> Some(data),
                         position |-> Some(Len(stack[Len(stack)].calls))])]

log(data) ==
    /\ ~panicked
    /\ callstack_with_opcodes' =
           IF ~config.with_log \/ interrupt THEN callstack_with_opcodes
           ELSE PushLog(callstack_with_opcodes, data)
    /\ n_log' = n_log + 1
    /\ well_formed' = (well_formed /\ OpenFrames > 0)
    /\ UNCHANGED <<draft, config, gas_limit, depth, interrupt, last_opcode_with_stack, keccak,
                   current_call_frame, panicked, n_call, n_call_end, n_step,
                   call_history, step_history>>

(***************************************************************************)
(* Inspector::step and its helpers.  The operand stack is a sequence with  *)
(* the top first: stack.peek(n) is stack[n + 1], an error when n >= len.   *)
(***************************************************************************)
Min(a, b) == IF a < b THEN a ELSE b

\* The loop over 0..=stack_top_items_size, keeping the peeks that are Ok.
StackTopItems(stack) == SubSeq(stack, 1, Min(config.stack_top_items_size + 1, Len(stack)))

handle_ext_opcodes(opcode, frame, last) ==
    IF is_ext(last.opcode) /\ ~(last.opcode = EXTCODESIZE /\ opcode = ISZERO)
    THEN [frame EXCEPT !.ext_code_access_info =
              Append(@, from_word(last.stack_top_items[1]))]
    ELSE frame

check_revert(opcode, last) ==
    IF opcode = REVERT \/ opcode = RETURN THEN None ELSE last

\* Operand index of the address: 0 for external-code opcodes, 1 for calls.
AddressOperand(opcode) == IF is_ext(opcode) THEN 0 ELSE 1

\* handle_accessed_contract_size reaches context.code(addr).
CodeQueried(opcode, stack, frame) ==
    /\ is_ext_or_call(opcode)
    /\ LET addr == from_word(stack[AddressOperand(opcode) + 1])
       IN  ~ContainsKey(frame.contract_size, addr) /\ ~is_allowed_precompile(addr)

handle_accessed_contract_size(opcode, stack, code_result, frame) ==
    IF CodeQueried(opcode, stack, frame) /\ IsSome(code_result)
    THEN [frame EXCEPT !.contract_size =
              Insert(@, from_word(stack[AddressOperand(opcode) + 1]),
                     [contract_size |-> Unwrap(code_result), opcode |-> opcode])]
    ELSE frame

handle_gas_observed(opcode, frame, last) ==
    IF last.opcode = GAS /\ ~is_call(opcode)
    THEN [frame EXCEPT !.used_opcodes = increment_count(@, GAS)]
    ELSE frame

store_used_opcode(opcode, frame) ==
    IF opcode # GAS /\ opcode \notin config.ignored_opcodes
    THEN [frame EXCEPT !.used_opcodes = increment_count(@, opcode)]
    ELSE frame

is_storage(opcode) == opcode \in {SLOAD, SSTORE, TLOAD, TSTORE}

\* handle_storage_access reaches context.db.storage(addr, slot).  Both
\* lookups of the SLOAD arm read accessed_slots.reads.
StorageQueried(opcode, stack, frame) ==
    /\ opcode = SLOAD
    /\ LET slot_hex == format_hex(stack[1])
           reads == ContainsKey(frame.accessed_slots.reads, slot_hex)
           writes == ContainsKey(frame.accessed_slots.reads, slot_hex)
       IN  ~reads /\ ~writes

handle_storage_access(opcode, stack, storage_result, frame) ==
    IF ~is_storage(opcode) THEN frame
    ELSE LET slot_hex == format_hex(stack[1])
         IN  CASE opcode = SLOAD ->
                    IF StorageQueried(opcode, stack, frame) /\ IsSome(storage_result)
                    THEN [frame EXCEPT !.accessed_slots.reads =
                              Insert(@, slot_hex, <<format_hex(Unwrap(storage_result))>>)]
                    ELSE frame
               [] opcode = SSTORE ->
                    [frame EXCEPT !.accessed_slots.writes = increment_count(@, slot_hex)]
               [] opcode = TLOAD ->
                    [frame EXCEPT !.accessed_slots.transient_reads =
                              increment_count(@, slot_hex)]
               [] OTHER ->
                    [frame EXCEPT !.accessed_slots.transient_writes =
                              increment_count(@, slot_hex)]

\* Uint::to::<u64>() panics unless the value fits 64 bits.
FitsU64(w) == \A i \in 1..(WordLen - 8) : w[i] = 0
ToU64(w) == BeValue(SubSeq(w, WordLen - 7, WordLen))

store_keccak(opcode, stack, memory, set) ==
    IF opcode = KECCAK256
    THEN LET data_offset == ToU64(stack[1])
             data_length == ToU64(stack[2])
         IN  set \cup {SubSeq(memory, data_offset + 1, data_offset + data_length)}
    ELSE set

\* Operands the handlers unwrap: peek(n).unwrap() for n below this.
OperandsNeeded(opcode) ==
    IF is_ext(opcode) \/ is_storage(opcode) THEN 1
    ELSE IF is_call(opcode) \/ opcode = KECCAK256 THEN 2
    ELSE 0

\* The unwraps and conversions of step that panic.
StepPanics(opcode, stack) ==
    \/ Len(callstack_with_opcodes) = 0
    \/ /\ IsSome(last_opcode_with_stack)
       /\ is_ext(Unwrap(last_opcode_with_stack).opcode)
       /\ Len(Unwrap(last_opcode_with_stack).stack_top_items) = 0
    \/ Len(stack) < OperandsNeeded(opcode)
    \/ opcode = KECCAK256 /\ (~FitsU64(stack[1]) \/ ~FitsU64(stack[2]))

\* The value of step's local current_call_frame after all handlers ran.
StepFrame(opcode, stack, code_result, storage_result) ==
    LET f0 == Last(callstack_with_opcodes)
        f1 == IF IsSome(last_opcode_with_stack)
              THEN handle_ext_opcodes(opcode, f0, Unwrap(last_opcode_with_stack))
              ELSE f0
        last1 == check_revert(opcode, last_opcode_with_stack)
        f2 == handle_accessed_contract_size(opcode, stack, code_result, f1)
        f3 == IF IsSome(last1) THEN handle_gas_observed(opcode, f2, Unwrap(last1)) ELSE f2
        f4 == store_used_opcode(opcode, f3)
    IN  handle_storage_access(opcode, stack, storage_result, f4)

\* The provider queries step issues, added to the history.
StepQueries(opcode, stack) ==
    LET f0 == Last(callstack_with_opcodes)
        f1 == IF IsSome(last_opcode_with_stack)
              THEN handle_ext_opcodes(opcode, f0, Unwrap(last_opcode_with_stack))
              ELSE f0
    IN  IF CodeQueried(opcode, stack, f1)
        THEN increment_count(provider_queries,
                 [kind |-> "code", frame |-> f0.id,
                  addr |-> from_word(stack[AddressOperand(opcode) + 1]), slot |-> << >>])
        ELSE IF StorageQueried(opcode, stack, f1)
        THEN increment_count(provider_queries,
                 [kind |-> "storage", frame |-> f0.id,
                  addr |-> from_word(stack[1]), slot |-> stack[1]])
        ELSE provider_queries

\* An external-code access is recorded by this step: the address, or None.
ExtRecorded(opcode) ==
    IF /\ IsSome(last_opcode_with_stack)
       /\ is_ext(Unwrap(last_opcode_with_stack).opcode)
       /\ ~(Unwrap(last_opcode_with_stack).opcode = EXTCODESIZE /\ opcode = ISZERO)
    THEN Some(from_word(Unwrap(last_opcode_with_stack).stack_top_items[1]))
    ELSE None

\* A variant: the working copy is stored back into the stack.
StepCallstack_WriteBack(frame) ==
    [callstack_with_opcodes EXCEPT ![Len(callstack_with_opcodes)] = frame]

\* What step leaves in callstack_with_opcodes: current_call_frame is a clone
\* of the last frame and is dropped at return.
StepCallstack(frame) == callstack_with_opcodes

step(opcode, stack, memory, code_result, storage_result) ==
    /\ ~panicked
    /\ n_step' = n_step + 1
    /\ well_formed' = (well_formed /\ OpenFrames > 0)
    /\ IF StepPanics(opcode, stack)
       THEN /\ panicked' = TRUE
            /\ UNCHANGED <<callstack_with_opcodes, last_opcode_with_stack, keccak,
                           current_call_frame, step_history>>
       ELSE LET frame == StepFrame(opcode, stack, code_result, storage_result)
            IN  /\ current_call_frame' = Some(frame)
                /\ callstack_with_opcodes' = StepCallstack(frame)
                /\ keccak' = store_keccak(opcode, stack, memory, keccak)
                /\ last_opcode_with_stack' =
                       Some([opcode |-> opcode, stack_top_items |-> StackTopItems(stack)])
                /\ panicked' = FALSE
                /\ provider_queries' = StepQueries(opcode, stack)
                /\ first_read' =
                       IF /\ opcode = SLOAD
                          /\ IsSome(storage_result)
                          /\ ~ContainsKey(first_read, [frame |-> TopId, slot |-> stack[1]])
                       THEN Insert(first_read, [frame |-> TopId, slot |-> stack[1]],
                                   Unwrap(storage_result))
                       ELSE first_read
                /\ sstored' =
                       IF opcode = SSTORE
                       THEN sstored \cup {[frame |-> TopId, slot |-> stack[1]]}
                       ELSE sstored
                /\ ext_recorded' =
                       IF IsSome(ExtRecorded(opcode))
                       THEN increment_count(ext_recorded,
                                [frame |-> TopId, addr |-> Unwrap(ExtRecorded(opcode))])
                       ELSE ext_recorded
    /\ UNCHANGED <<draft, config, gas_limit, depth, interrupt, n_call, n_call_end, n_log,
                   call_history>>

(***************************************************************************)
(* The events the executor delivers, from bounded sets.                    *)
(***************************************************************************)
W1 == WordOf(1)
W2 == WordOf(2)
W5 == WordOf(5)
WA == WordOf(187)
WL == WordHighAddrByte(5)

\* The interpreter's memory at a step.
Memory == <<222, 173, 190, 239>>

\* context.code(addr): Err, or Ok with the code's length.
CodeResults == {None, Some(3)}
\* context.db.storage(addr, slot): Err, or Ok with the value.
StorageResults == {None, Some(WordOf(7)), Some(WordOf(8))}

LogData == {<<9>>}

\* A step event with its opcode and operand stack drawn from a set, and the
\* provider's answers where the opcode can reach the provider.
StepFrom(inputs) ==
    \E in \in inputs :
        \E code_result \in (IF is_ext_or_call(in.opcode) THEN CodeResults ELSE {None}),
           storage_result \in (IF in.opcode = SLOAD THEN StorageResults ELSE {None}) :
            step(in.opcode, in.stack, Memory, code_result, storage_result)

(***************************************************************************)
(* Spec: the executor's contract.  Events arrive well-formed: a call       *)
(* carries the number of frames open as its depth, call_end, step and log  *)
(* arrive while a frame is open, nothing arrives after the root's          *)
(* call_end.                                                               *)
(***************************************************************************)
TraceStepInputs ==
    { [opcode |-> GAS, stack |-> << >>],
      [opcode |-> RETURN, stack |-> <<W5, W5>>],
      [opcode |-> KECCAK256, stack |-> <<W1, W2>>] }

Call ==
    \E inputs \in CallInputsSet :
        /\ n_call < MaxCalls
        /\ ~RootEnded
        /\ call(inputs, OpenFrames)

Step ==
    /\ n_step < MaxSteps
    /\ OpenFrames > 0
    /\ StepFrom(TraceStepInputs)

CallEnd ==
    \E outcome \in CallOutcomes :
        /\ OpenFrames > 0
        /\ call_end(outcome)

Log ==
    \E data \in LogData :
        /\ n_log < MaxLogs
        /\ OpenFrames > 0
        /\ log(data)

Next == Call \/ Step \/ CallEnd \/ Log

Spec == Init /\ [][Next]_vars

(***************************************************************************)
(* SpecFrames: a well-formed run of a few nested frames whose steps are    *)
(* storage accesses, GAS and arithmetic.                                   *)
(***************************************************************************)
FrameStepInputs ==
    { [opcode |-> SLOAD, stack |-> <<WA>>],
      [opcode |-> SLOAD, stack |-> <<W5>>],
      [opcode |-> SSTORE, stack |-> <<WA, W5>>],
      [opcode |-> CALL, stack |-> <<W5, WA>>],
      [opcode |-> GAS, stack |-> << >>],
      [opcode |-> ADD, stack |-> <<W5, W5>>] }

FrameCallInputs ==
    [scheme |-> "Call", caller |-> AddrOf(170), target_address |-> AddrOf(187),
     input |-> << >>, value |-> 0, gas_limit |-> 1000]

FrameOutcome == [result |-> "Return", output |-> << >>, spent |-> 21]

FrameCall ==
    /\ n_call < MaxFrames
    /\ ~RootEnded
    /\ call(FrameCallInputs, OpenFrames)

FrameStep ==
    /\ n_step < MaxFrameSteps
    /\ OpenFrames > 0
    /\ StepFrom(FrameStepInputs)

FrameCallEnd ==
    /\ OpenFrames > 0
    /\ call_end(FrameOutcome)

NextFrames == FrameCall \/ FrameStep \/ FrameCallEnd

SpecFrames == Init /\ [][NextFrames]_vars

(***************************************************************************)
(* SpecExt: a well-formed run of a few nested frames whose steps read the  *)
(* code of other accounts: an ordinary address, address 5 and the address  *)
(* whose bytes are those of 5 reversed.                                    *)
(***************************************************************************)
ExtStepInputs ==
    { [opcode |-> EXTCODESIZE, stack |-> <<WA>>],
      [opcode |-> EXTCODEHASH, stack |-> <<WA>>],
      [opcode |-> EXTCODESIZE, stack |-> <<W5>>],
      [opcode |-> EXTCODESIZE, stack |-> <<WL>>],
      [opcode |-> CALL, stack |-> <<W5, WA>>],
      [opcode |-> ISZERO, stack |-> <<W5>>],
      [opcode |-> ADD, stack |-> <<W5, W5>>] }

ExtCall ==
    /\ n_call < MaxFrames
    /\ ~RootEnded
    /\ call(FrameCallInputs, OpenFrames)

ExtStep ==
    /\ n_step < MaxFrameSteps
    /\ OpenFrames > 0
    /\ StepFrom(ExtStepInputs)

ExtCallEnd ==
    /\ OpenFrames > 0
    /\ call_end(FrameOutcome)

NextExt == ExtCall \/ ExtStep \/ ExtCallEnd

SpecExt == Init /\ [][NextExt]_vars

(***************************************************************************)
(* SpecTree: well-formed runs of call and call_end alone, deep and wide    *)
(* enough for siblings and grandchildren.                                  *)
(***************************************************************************)
TreeCall ==
    \E inputs \in CallInputsSet :
        /\ n_call < MaxTreeCalls
        /\ ~RootEnded
        /\ call(inputs, OpenFrames)

TreeCallEnd ==
    \E outcome \in CallOutcomes :
        /\ OpenFrames > 0
        /\ call_end(outcome)

NextTree == TreeCall \/ TreeCallEnd

SpecTree == Init /\ [][NextTree]_vars

(***************************************************************************)
(* The finished trace: From<&Erc7562ValidationTracer> clones the frame at  *)
(* the bottom of the stack.                                                *)
(***************************************************************************)
finished_trace == callstack_with_opcodes[1]

\* A frame and all the frames below it in its tree of calls.
RECURSIVE Subframes(_)
Subframes(frame) ==
    {frame} \cup UNION {Subframes(frame.calls[i]) : i \in 1..Len(frame.calls)}

\* The ordinals of a frame and of the frames below it, parents first.
RECURSIVE TreeIds(_)
RECURSIVE TreeIdsOf(_, _)
TreeIdsOf(calls, i) ==
    IF i > Len(calls) THEN << >> ELSE TreeIds(calls[i]) \o TreeIdsOf(calls, i + 1)
TreeIds(frame) == <<frame.id>> \o TreeIdsOf(frame.calls, 1)

\* Every frame reachable from the stack: the open frames and all sealed ones.
AllFrames == UNION {Subframes(callstack_with_opcodes[i]) :
                        i \in 1..Len(callstack_with_opcodes)}

\* Position of a call's call_end among the call_end events, 0 if not ended.
EndPos(id) ==
    IF \E k \in 1..Len(ended) : ended[k].id = id
    THEN CHOOSE k \in 1..Len(ended) : ended[k].id = id
    ELSE 0

IsPrefix(s, t) == Len(s) <= Len(t) /\ SubSeq(t, 1, Len(s)) = s

(***************************************************************************)
(* C1: in a well-formed run, once the root's call_end has been handled,    *)
(* as many call_end as call events were handled, the depth counter is 0    *)
(* and the stack holds exactly one frame, the root.                        *)
(***************************************************************************)
C1_Balanced ==
    (well_formed /\ RootEnded) =>
        /\ n_call = n_call_end
        /\ depth = 0
        /\ Len(callstack_with_opcodes) = 1
        /\ callstack_with_opcodes[1].id = 1

\* The root ended after a nested call was opened and closed.
C1_Witness == well_formed /\ RootEnded /\ n_call = 2 /\ n_call_end = 2

\* The finished trace holds every call once, under the frame that was on top
\* when it fired, siblings in call_end order.
TraceIsTree ==
    LET root == finished_trace
        ids == TreeIds(root)
    IN  /\ Len(ids) = n_call
        /\ {ids[i] : i \in 1..Len(ids)} = 1..n_call
        /\ parent_of[root.id] = 0
        /\ \A f \in Subframes(root) :
               /\ \A i \in 1..Len(f.calls) : parent_of[f.calls[i].id] = f.id
               /\ \A i, j \in 1..Len(f.calls) :
                      i < j => EndPos(f.calls[i].id) < EndPos(f.calls[j].id)

ChildListsAppendOnly ==
    \A i \in 1..Len(callstack_with_opcodes) :
        (/\ i <= Len(callstack_with_opcodes')
         /\ callstack_with_opcodes'[i].id = callstack_with_opcodes[i].id)
        => IsPrefix(callstack_with_opcodes[i].calls, callstack_with_opcodes'[i].calls)

(***************************************************************************)
(* C2: in a well-formed run the finished trace is a tree holding the frame *)
(* of every call exactly once, each as a child of the frame that was on    *)
(* top of the stack when the call fired, each child list in call_end       *)
(* order; and a child list only grows at its end.                          *)
(***************************************************************************)
C2_TraceTree ==
    /\ []((well_formed /\ RootEnded) => TraceIsTree)
    /\ [][ChildListsAppendOnly]_vars

\* A finished trace of three calls whose root has two children.
C2_Witness ==
    /\ well_formed
    /\ RootEnded
    /\ n_call = 3
    /\ Len(finished_trace.calls) = 2

\* Number of times a query was issued to the State Provider.
QueryCount(key) == IF key \in DOMAIN provider_queries THEN provider_queries[key] ELSE 0

StorageQuery(frame_id, slot) ==
    [kind |-> "storage", frame |-> frame_id, addr |-> from_word(slot), slot |-> slot]

CodeQuery(frame_id, addr) ==
    [kind |-> "code", frame |-> frame_id, addr |-> addr, slot |-> << >>]

(***************************************************************************)
(* C3: after SLOAD steps on a slot in a frame with the provider answering, *)
(* the frame's reads map holds exactly one entry for the slot, with the    *)
(* value of the first answered read.                                       *)
(***************************************************************************)
C3_FirstReadRecorded ==
    \A i \in 1..Len(callstack_with_opcodes) :
        \A k \in DOMAIN first_read :
            k.frame = callstack_with_opcodes[i].id =>
                LET reads == callstack_with_opcodes[i].accessed_slots.reads
                IN  /\ format_hex(k.slot) \in DOMAIN reads
                    /\ reads[format_hex(k.slot)] = <<format_hex(first_read[k])>>

(***************************************************************************)
(* C4: the State Provider is asked at most once for the code length of a   *)
(* (frame, address) pair and at most once for the value of a (frame, slot) *)
(* pair.                                                                   *)
(***************************************************************************)
C4_AtMostOneQuery == \A key \in DOMAIN provider_queries : provider_queries[key] <= 1

\* The reads maps of the frames with the given ordinal.
ReadsOf(frame_id) ==
    { f.accessed_slots.reads : f \in {g \in AllFrames : g.id = frame_id} }

(***************************************************************************)
(* C5: once a frame has a persistent write of a slot, an SLOAD of that     *)
(* slot in the frame issues no storage query and adds nothing to the       *)
(* frame's reads map.                                                      *)
(***************************************************************************)
C5_NoReadAfterWrite ==
    [][\A k \in sstored :
           /\ QueryCount(StorageQuery(k.frame, k.slot))' =
                  QueryCount(StorageQuery(k.frame, k.slot))
           /\ \A r \in ReadsOf(k.frame)' : format_hex(k.slot) \notin DOMAIN r]_vars

NoDuplicates(seq) == \A i, j \in 1..Len(seq) : seq[i] = seq[j] => i = j

(***************************************************************************)
(* C6: no frame, open or sealed, has an address twice in its               *)
(* external-code-access list, nor two entries for one address in its       *)
(* contract-size cache (a map keyed by address).                           *)
(***************************************************************************)
C6_NoDuplicateAddress ==
    \A f \in AllFrames : NoDuplicates(f.ext_code_access_info)

\* Step recorded an external-code access of the same address twice while
\* the same frame was on top, and that frame is still on top.
C6_Witness ==
    \E k \in DOMAIN ext_recorded : ext_recorded[k] >= 2 /\ k.frame = TopId

\* The addresses whose numeric value is 1..9.
Precompiles == {AddrOf(n) : n \in 1..9}

(***************************************************************************)
(* C7: a step with an external-code or call opcode whose address operand   *)
(* is a precompile address 1..9 queries no code length and adds no entry   *)
(* to a contract-size cache.                                               *)
(***************************************************************************)
C7_PrecompilesNotLookedUp ==
    /\ \A key \in DOMAIN provider_queries :
           key.kind = "code" => key.addr \notin Precompiles
    /\ \A f \in AllFrames : DOMAIN f.contract_size \cap Precompiles = {}

\* The top frame's count of GAS in its histogram.
GasCount(stack) ==
    LET used == stack[Len(stack)].used_opcodes
    IN  IF GAS \in DOMAIN used THEN used[GAS] ELSE 0

\* Call opcodes: CALL, CALLCODE, DELEGATECALL, STATICCALL and the ext ones.
CallLike(opcode) ==
    opcode \in {CALL, CALLCODE, DELEGATECALL, STATICCALL,
                EXTCALL, EXTDELEGATECALL, EXTSTATICCALL}

\* The step now handled follows the previous step with no other event in
\* between: the frame on top is the one the previous step copied.
FollowsLastStep ==
    /\ IsSome(current_call_frame)
    /\ Len(callstack_with_opcodes) > 0
    /\ Unwrap(current_call_frame).id = TopId
    /\ Unwrap(current_call_frame).calls = Last(callstack_with_opcodes).calls
    /\ Unwrap(current_call_frame).logs = Last(callstack_with_opcodes).logs

(***************************************************************************)
(* C8: a step that follows a GAS step in the same frame adds one to the    *)
(* frame's count of GAS unless it is a call opcode, and then adds nothing; *)
(* the GAS step itself adds nothing.                                       *)
(***************************************************************************)
C8_GasObserved ==
    [][(/\ n_step' = n_step + 1
        /\ ~panicked'
        /\ IsSome(last_opcode_with_stack)
        /\ FollowsLastStep)
       => LET before == Unwrap(last_opcode_with_stack).opcode
              now == Unwrap(last_opcode_with_stack').opcode
          IN  /\ (before = GAS /\ CallLike(now)) =>
                     GasCount(callstack_with_opcodes') = GasCount(callstack_with_opcodes)
              /\ (before = GAS /\ ~CallLike(now)) =>
                     GasCount(callstack_with_opcodes') = GasCount(callstack_with_opcodes) + 1
              /\ (before # GAS /\ now = GAS) =>
                     GasCount(callstack_with_opcodes') = GasCount(callstack_with_opcodes)]_vars

(***************************************************************************)
(* C9: a frame sealed by a call_end that reported a revert with a standard *)
(* Error(string) payload sits in its parent's child list with its reverted *)
(* flag set, an error description, and the decoded revert reason.          *)
(***************************************************************************)
C9_RevertRecorded ==
    \A f \in AllFrames :
        \A i \in 1..Len(f.calls) :
            LET c == f.calls[i]
                k == EndPos(c.id)
            IN  (/\ k > 0
                 /\ ended[k].outcome.result = "Revert"
                 /\ IsErrorString(ended[k].outcome.output))
                => /\ c.reverted_snapshot = TRUE
                   /\ IsSome(c.error)
                   /\ c.revert_reason = RevertReason_decode(ended[k].outcome.output)

(***************************************************************************)
(* SpecHalted: Spec with the interrupt flag set from outside at any time.  *)
(* The struct has the flag and log reads it; nothing under src/ sets it.   *)
(***************************************************************************)
SetInterrupt ==
    /\ ~panicked
    /\ ~interrupt
    /\ interrupt' = TRUE
    /\ UNCHANGED <<draft, config, gas_limit, depth, callstack_with_opcodes,
                   last_opcode_with_stack, keccak, current_call_frame, panicked,
                   n_call, n_call_end, n_step, n_log, call_history, step_history,
                   well_formed>>

NextHalted == Next \/ SetInterrupt

SpecHalted == Init /\ [][NextHalted]_vars

(***************************************************************************)
(* C10: once the interrupt flag is set, a step, log or call event changes  *)
(* nothing of the engine: the stack and its frames, the depth counter, the *)
(* lookback memory and the preimage set stay as they were.                 *)
(***************************************************************************)
C10_HaltedIgnoresEvents ==
    [][(/\ interrupt
        /\ (n_step' # n_step \/ n_log' # n_log \/ n_call' # n_call))
       => UNCHANGED <<callstack_with_opcodes, depth, last_opcode_with_stack, keccak>>]_vars

(***************************************************************************)
(* C11: a step delivered with fewer operand-stack entries than the window  *)
(* needs (stack_top_items_size + 1) stores no lookback window: whatever    *)
(* window the lookback memory holds has the full stack_top_items_size + 1  *)
(* entries.                                                                *)
(***************************************************************************)
C11_NoShortWindow ==
    IsSome(last_opcode_with_stack) =>
        Len(Unwrap(last_opcode_with_stack).stack_top_items) =
            config.stack_top_items_size + 1

(***************************************************************************)
(* SpecLoose: the handlers under any stream of events, also streams the    *)
(* executor's contract excludes: a call carrying any depth, call_end, step *)
(* and log with no call open or after the root's call_end.                 *)
(***************************************************************************)
LooseCall ==
    \E inputs \in CallInputsSet, depth_arg \in 0..MaxDepthArg :
        /\ n_call < MaxCalls
        /\ call(inputs, depth_arg)

LooseStep ==
    /\ n_step < MaxSteps
    /\ StepFrom(TraceStepInputs)

LooseCallEnd ==
    \E outcome \in CallOutcomes :
        /\ n_call_end < MaxEnds
        /\ call_end(outcome)

LooseLog ==
    \E data \in LogData :
        /\ n_log < MaxLogs
        /\ log(data)

NextLoose == LooseCall \/ LooseStep \/ LooseCallEnd \/ LooseLog

SpecLoose == Init /\ [][NextLoose]_vars

(***************************************************************************)
(* C12: a call_end handled while the depth counter is not 0 and fewer than *)
(* two frames are on the stack raises no error and leaves the stack, its   *)
(* frames, the depth counter and the lookback memory as they were.         *)
(***************************************************************************)
C12_AnomalyIgnored ==
    [][(/\ n_call_end' = n_call_end + 1
        /\ depth # 0
        /\ Len(callstack_with_opcodes) < 2)
       => /\ ~panicked'
          /\ UNCHANGED <<callstack_with_opcodes, depth, last_opcode_with_stack>>]_vars

(***************************************************************************)
(* The draft inspector of erc_7562.rs: Ecr7562Inspector and its frame type *)
(* CallFrameWithOpcodes.  A frame here is made at every step, with the     *)
(* opcode as its kind; gas_limit and interupt are never assigned in the    *)
(* file.                                                                   *)
(***************************************************************************)
ZeroAddress == [i \in 1..AddrLen |-> 0]

validation == <<tracer, current_call_frame, panicked, n_call, n_call_end, n_step,
                n_log, call_history, step_history, well_formed>>

\* CallFrameWithOpcodes::process_output(&mut self, output, error, reverted).
\* A faulty variant: only CREATE is taken for a creation.
CallFrameWithOpcodes_process_output_CreateOnly(frame, output, error, reverted) ==
    LET f1 == [frame EXCEPT !.output = output, !.error = error,
                            !.reverted_snapchat = reverted]
    IN  IF f1.ty = CREATE THEN [f1 EXCEPT !.to = ZeroAddress] ELSE f1

CallFrameWithOpcodes_process_output(frame, output, error, reverted) ==
    LET f1 == [frame EXCEPT !.output = output, !.error = error,
                            !.reverted_snapchat = reverted]
    IN  IF f1.ty = CREATE \/ f1.ty = CREATE2 THEN [f1 EXCEPT !.to = ZeroAddress] ELSE f1

\* Ecr7562Inspector::capture_end.
Ecr7562Inspector_capture_end(stack, output, error, reverted) ==
    IF Len(stack) # 1 THEN stack
    ELSE [stack EXCEPT ![1] =
              CallFrameWithOpcodes_process_output(stack[1], output, error, reverted)]

\* The frame Ecr7562Inspector::step builds; the rest is Default.
DraftFrame(in) ==
    [ty |-> in.opcode, from |-> in.caller, to |-> in.target, input |-> in.input,
     gas |-> IF in.stack_len = 0 THEN 0 ELSE in.spent,
     gas_used |-> 0, value |-> in.value,
     output |-> << >>, error |-> "", revert_reason |-> "",
     reverted_snapchat |-> FALSE]

\* Ecr7562Inspector::step: the interupt flag is false, the frame is pushed.
Ecr7562Inspector_step(in) ==
    /\ call_stack_with_opcodes' = Append(call_stack_with_opcodes, DraftFrame(in))
    /\ UNCHANGED <<unsealed, validation>>

\* Interpreter states handed to the draft's step.
DraftStepInputs ==
    [opcode : {CREATE, CREATE2, CALL}, caller : {AddrOf(170)},
     target : {AddrOf(187), AddrOf(204)}, input : {<< >>}, spent : {7},
     value : {0}, stack_len : {0, 1}]

\* (output, error, reverted) handed to capture_end.
DraftOutcomes ==
    { [output |-> <<1>>, error |-> "", reverted |-> FALSE],
      [output |-> RevertNoBytes, error |-> "execution reverted", reverted |-> TRUE] }

(***************************************************************************)
(* SpecSeal: frames being sealed, in either inspector.  A run drives the   *)
(* draft inspector (steps and capture_end) or the validation tracer (calls *)
(* and call_ends), never both: they share nothing.                         *)
(***************************************************************************)
DraftStep ==
    \E in \in DraftStepInputs :
        /\ n_call = 0
        /\ Len(call_stack_with_opcodes) < MaxDraftFrames
        /\ Ecr7562Inspector_step(in)

DraftCaptureEnd ==
    \E o \in DraftOutcomes :
        /\ n_call = 0
        /\ call_stack_with_opcodes' =
               Ecr7562Inspector_capture_end(call_stack_with_opcodes,
                                            o.output, o.error, o.reverted)
        /\ unsealed' = IF Len(call_stack_with_opcodes) = 1 /\ IsNone(unsealed)
                       THEN Some(call_stack_with_opcodes[1])
                       ELSE unsealed
        /\ UNCHANGED validation

SealCall ==
    \E inputs \in CallInputsSet :
        /\ call_stack_with_opcodes = << >>
        /\ n_call < MaxTreeCalls
        /\ ~RootEnded
        /\ call(inputs, OpenFrames)

SealCallEnd ==
    \E outcome \in CallOutcomes :
        /\ OpenFrames > 0
        /\ call_end(outcome)

NextSeal == DraftStep \/ DraftCaptureEnd \/ SealCall \/ SealCallEnd

SpecSeal == Init /\ [][NextSeal]_vars

\* The frames of the validation tracer that are sealed: those in a child list
\* and, once a well-formed run has ended its root, the root.
SealedFrames ==
    (AllFrames \ {callstack_with_opcodes[i] : i \in 1..Len(callstack_with_opcodes)})
        \cup (IF well_formed /\ RootEnded THEN {finished_trace} ELSE {})

LogConfigInputs ==
    { [ignored_opcodes |-> {}, stack_top_items_size |-> 0, with_log |-> TRUE],
      [ignored_opcodes |-> {}, stack_top_items_size |-> 0, with_log |-> FALSE] }

InitLogs == InitWith(LogConfigInputs)

LogsCall ==
    \E inputs \in CallInputsSet :
        /\ n_call < MaxFrames
        /\ ~RootEnded
        /\ call(inputs, OpenFrames)

LogsCallEnd ==
    \E outcome \in CallOutcomes :
        /\ OpenFrames > 0
        /\ call_end(outcome)

LogsLog ==
    \E data \in LogData :
        /\ n_log < MaxLogEvents
        /\ OpenFrames > 0
        /\ log(data)

NextLogs == LogsCall \/ LogsCallEnd \/ LogsLog

SpecLogs == InitLogs /\ [][NextLogs]_vars

\* The positions of a frame's log records never decrease.
PositionsOrdered(logs) ==
    \A i, j \in 1..Len(logs) :
        i < j => Unwrap(logs[i].position) <= Unwrap(logs[j].position)

\* A log event put exactly one record on the top frame, with the number of
\* the frame's children as its position, and touched no other frame.
OneRecordOnTop ==
    LET n == Len(callstack_with_opcodes)
        top == callstack_with_opcodes[n]
        top_after == callstack_with_opcodes'[n]
    IN  /\ Len(callstack_with_opcodes') = n
        /\ \A i \in 1..(n - 1) : callstack_with_opcodes'[i] = callstack_with_opcodes[i]
        /\ top_after = [top EXCEPT !.logs = top_after.logs]
        /\ Len(top_after.logs) = Len(top.logs) + 1
        /\ IsPrefix(top.logs, top_after.logs)
        /\ Last(top_after.logs).position = Some(Len(top.calls))
        /\ Unwrap(Last(top_after.logs).data) \in LogData

(***************************************************************************)
(* C14: with log capture enabled and the interrupt flag clear, a log event *)
(* appends exactly one record to the top frame and to no other, with its   *)
(* position the number of children the frame has then; so the positions of *)
(* a frame's logs never decrease.  With log capture disabled no frame      *)
(* holds a log record.                                                     *)
(***************************************************************************)
C14_LogPositions ==
    /\ [](\A f \in AllFrames :
              /\ PositionsOrdered(f.logs)
              /\ ~config.with_log => f.logs = << >>)
    /\ [][(/\ n_log' = n_log + 1
            /\ config.with_log
            /\ ~interrupt
            /\ Len(callstack_with_opcodes) > 0)
           => OneRecordOnTop]_vars

\* A frame logged before and after it got a child.
C14_Witness ==
    \E f \in AllFrames :
        /\ Len(f.logs) = 2
        /\ f.logs[1].position = Some(0)
        /\ f.logs[2].position = Some(1)

\* The frames sitting in a child list, at any depth below an open frame.
SealedChildren ==
    AllFrames \ {callstack_with_opcodes[i] : i \in 1..Len(callstack_with_opcodes)}

ExtList(stack) == stack[Len(stack)].ext_code_access_info

(***************************************************************************)
(* C16: a step that directly follows a step with EXTCODESIZE, EXTCODEHASH  *)
(* or EXTCODECOPY appends the address in that step's top stack entry to    *)
(* the top frame's external-code-access list, unless it is an ISZERO after *)
(* an EXTCODESIZE; in that case, and after any other opcode, the list      *)
(* stays as it is.                                                         *)
(***************************************************************************)
C16_ExtAccessRecorded ==
    [][(/\ n_step' = n_step + 1
        /\ ~panicked'
        /\ IsSome(last_opcode_with_stack)
        /\ FollowsLastStep)
       => LET last == Unwrap(last_opcode_with_stack)
              now == Unwrap(last_opcode_with_stack').opcode
          IN  IF /\ last.opcode \in {EXTCODESIZE, EXTCODEHASH, EXTCODECOPY}
                 /\ ~(last.opcode = EXTCODESIZE /\ now = ISZERO)
              THEN ExtList(callstack_with_opcodes') =
                       Append(ExtList(callstack_with_opcodes),
                              from_word(last.stack_top_items[1]))
              ELSE ExtList(callstack_with_opcodes') =
                       ExtList(callstack_with_opcodes)]_vars

(***************************************************************************)
(* C17: in a well-formed run every frame has the kind, caller, target,     *)
(* input, value and gas of the call event that made it, and the tracer's   *)
(* gas_limit is the gas of the first (depth 0) call.                       *)
(***************************************************************************)
C17_StaticSnapshot ==
    well_formed =>
        /\ \A f \in AllFrames :
               LET c == called[f.id].inputs
               IN  /\ f.typ = get_opcode_from_call_scheme(c.scheme)
                   /\ f.from = c.caller
                   /\ f.to = Some(c.target_address)
                   /\ f.input = c.input
                   /\ f.value = Some(c.value)
                   /\ f.gas = c.gas_limit
        /\ n_call > 0 => gas_limit = called[1].inputs.gas_limit

(***************************************************************************)
(* SpecOpcodes: well-formed runs whose steps carry every opcode the        *)
(* tracer names, each with two operands on the stack.                      *)
(***************************************************************************)
NamedOpcodes ==
    {ADD, ISZERO, KECCAK256, EXTCODESIZE, EXTCODECOPY, EXTCODEHASH, POP, SLOAD,
     SSTORE, GAS, TLOAD, TSTORE, PUSH0, SWAP16, CALL, CALLCODE, RETURN,
     DELEGATECALL, EXTCALL, EXTDELEGATECALL, STATICCALL, EXTSTATICCALL, REVERT}

OpcodeStepInputs == [opcode : NamedOpcodes, stack : {<<W1, W2>>}]

OpCall ==
    /\ n_call < MaxCalls
    /\ ~RootEnded
    /\ call(FrameCallInputs, OpenFrames)

OpStep ==
    /\ n_step < MaxSteps
    /\ OpenFrames > 0
    /\ StepFrom(OpcodeStepInputs)

OpCallEnd ==
    /\ OpenFrames > 0
    /\ call_end(FrameOutcome)

NextOpcodes == OpCall \/ OpStep \/ OpCallEnd

SpecOpcodes == Init /\ [][NextOpcodes]_vars

(***************************************************************************)
(* C18: for the opcode of every step handled, is_call holds exactly for    *)
(* CALL, CALLCODE, DELEGATECALL, STATICCALL, EXTCALL, EXTDELEGATECALL and  *)
(* EXTSTATICCALL, and is_ext exactly for EXTCODESIZE, EXTCODEHASH and      *)
(* EXTCODECOPY.                                                            *)
(***************************************************************************)
C18_CallPredicates ==
    IsSome(last_opcode_with_stack) =>
        LET opcode == Unwrap(last_opcode_with_stack).opcode
        IN  /\ is_call(opcode) <=> CallLike(opcode)
            /\ is_ext(opcode) <=> opcode \in {EXTCODESIZE, EXTCODEHASH, EXTCODECOPY}

(***************************************************************************)
(* C19: in a well-formed run, from the first call on, the stack holds one  *)
(* frame more than the depth counter says; step and log events change      *)
(* neither the length of the stack nor the depth counter.                  *)
(***************************************************************************)
C19_StackMatchesDepth ==
    /\ []((well_formed /\ n_call > 0) => Len(callstack_with_opcodes) = depth + 1)
    /\ [][(n_step' # n_step \/ n_log' # n_log)
           => /\ Len(callstack_with_opcodes') = Len(callstack_with_opcodes)
              /\ depth' = depth]_vars

\* A nested frame is open and has seen a step and a log.
C19_Witness ==
    /\ well_formed
    /\ depth = 1
    /\ Len(callstack_with_opcodes) = 2
    /\ n_step = 1
    /\ n_log = 1
    /\ Len(Last(callstack_with_opcodes).logs) = 1

\* The outcome fields, logs and child list of a frame.
Outcome(frame) ==
    <<frame.output, frame.error, frame.revert_reason, frame.gas_used,
      frame.out_of_gas, frame.logs, frame.calls>>

(***************************************************************************)
(* C20: once a well-formed run has had its root sealed by the depth-0      *)
(* call_end, a further event (call, step, log or call_end) leaves the root *)
(* frame's outcome fields, logs and child list as they were.               *)
(***************************************************************************)
C20_RootTerminal ==
    [][(/\ well_formed
        /\ RootEnded
        /\ \/ n_call' # n_call
           \/ n_step' # n_step
           \/ n_log' # n_log
           \/ n_call_end' # n_call_end)
       => Outcome(callstack_with_opcodes'[1]) = Outcome(callstack_with_opcodes[1])]_vars

(***************************************************************************)
(* C21: every storage-value query the step handler sends to the provider   *)
(* for a persistent read of a slot is made for the target address of the   *)
(* frame on top of the stack, not for an address taken from the slot.      *)
(***************************************************************************)
C21_StorageQueryAddress ==
    \A key \in DOMAIN provider_queries :
        (key.kind = "storage" /\ key.frame \in DOMAIN called)
            => key.addr = called[key.frame].inputs.target_address

====
